---- MODULE Spec2Model ----
(***************************************************************************)
(* Model of jakarta_traffic_bot.py: the traffic-assessment pipeline        *)
(* (fetch -> classify -> persist -> compare-to-history), the scheduled     *)
(* sweep thread and the chat handlers that share the SQLite history.       *)
(*                                                                         *)
(* Time is counted in hours.  `now` is the UTC clock; datetime.now() in    *)
(* the program is the naive local time now + tz, while SQLite's            *)
(* datetime('now') is UTC.  Durations are integer seconds.  Ratios and     *)
(* averages are exact rationals <<numerator, denominator>>.                *)
(***************************************************************************)
EXTENDS Integers, Sequences, FiniteSets, TLC

VARIABLES
    history,        \* rows of traffic_history, in insertion (id) order
    now,            \* UTC clock, hours
    tz,             \* offset of the host's local time from UTC, hours
    ticks,          \* number of clock advances so far
    sweepPc,        \* position of the scheduler thread in collect_traffic_data
    sweepIdx,       \* road index of the sweep's for loop
    sweepData,      \* traffic_data held by the sweep between fetch and store
    sweepLog,       \* per road: fetcher calls, fetched value and rows inserted by the current sweep
    user_location,  \* context.user_data['user_location'] or None
    hPc,            \* position of the running chat handler
    hIdx,           \* road index of traffic_command's for loop
    hDest,          \* geocoded destination held by handle_text
    hData,          \* traffic_data held by the running handler
    hResult,        \* last (is_unusual, unusual_msg) obtained by the running handler
    hRows,          \* ids of the rows the running handler inserted
    hSeen,          \* length of the history and clock at the handler's last read
    report,         \* traffic_report entries accumulated by traffic_command
    reply,          \* last reply_text sent by a handler
    call            \* last direct call of a pure operation: its arguments and result

vars == <<history, now, tz, ticks, sweepPc, sweepIdx, sweepData, sweepLog,
          user_location, hPc, hIdx, hDest, hData, hResult, hRows, hSeen,
          report, reply, call>>

sweepVars == <<sweepPc, sweepIdx, sweepData, sweepLog>>
handlerVars == <<hPc, hIdx, hDest, hData, hResult, hRows, hSeen, report, reply>>

-----------------------------------------------------------------------------
(* Bounds of the model *)

NumRoads == 2
MaxHist == 3
MaxTicks == 1

(* Hours the clock may advance by in one step *)
ClockSteps == {167, 170, 720}

(* Local-time offsets of the host: UTC, or Asia/Jakarta (WIB, UTC+7) *)
TzOffsets == {0, 7}

None == [tag |-> "None"]

-----------------------------------------------------------------------------
(* Exact rational arithmetic on <<numerator, denominator>>, denominator > 0 *)

\* a <= b
RatLeq(a, b) == a[1] * b[2] <= b[1] * a[2]

\* a > b
RatGt(a, b) == ~RatLeq(a, b)

-----------------------------------------------------------------------------
(* Configuration *)

\* self.major_roads in source order, coordinates abstracted to point ids:
\* Sudirman 1->2, Thamrin 3->1, Gatot Subroto 2->4, Cikampek Toll 5->6, Rasuna Said 2->7
all_roads == << <<1, 2>>, <<3, 1>>, <<2, 4>>, <<5, 6>>, <<2, 7>> >>

major_roads == SubSeq(all_roads, 1, NumRoads)

Roads == 1..Len(major_roads)

\* self.severity_thresholds
severity_thresholds == [normal |-> <<15, 100>>, moderate |-> <<30, 100>>,
                        heavy |-> <<60, 100>>, severe |-> <<100, 100>>]

\* days_back default of get_historical_average, in hours
DaysBack == 720

\* the '-7 days' modifier of stats_command, in hours
StatsWindow == 168

\* the "unusual" threshold 0.5 of is_traffic_unusual
UnusualThreshold == <<5, 10>>

\* location=f"{origin['lat']},{origin['lng']}-{destination['lat']},{destination['lng']}"
LocationKey(origin, destination) == <<origin, destination>>

\* datetime.now(): naive local time
LocalNow == now + tz

-----------------------------------------------------------------------------
(* Severity Classifier *)

\* variant: the band boundaries fall into the upper band (< instead of <=)
calculate_severity_exclusive(increase_ratio) ==
    IF ~RatLeq(severity_thresholds.normal, increase_ratio) THEN "normal"
    ELSE IF ~RatLeq(severity_thresholds.moderate, increase_ratio) THEN "moderate"
    ELSE IF ~RatLeq(severity_thresholds.heavy, increase_ratio) THEN "heavy"
    ELSE "severe"

calculate_severity(increase_ratio) ==
    IF RatLeq(increase_ratio, severity_thresholds.normal) THEN "normal"
    ELSE IF RatLeq(increase_ratio, severity_thresholds.moderate) THEN "moderate"
    ELSE IF RatLeq(increase_ratio, severity_thresholds.heavy) THEN "heavy"
    ELSE "severe"

-----------------------------------------------------------------------------
(* Traffic Fetcher.  A response of the directions API is a record:         *)
(*   transport  - FALSE when requests.get / response.json raise            *)
(*   status     - data["status"]                                           *)
(*   nroutes    - len(data["routes"])                                      *)
(*   wellformed - FALSE when routes[0].legs[0] lacks the duration fields   *)
(*   dit, dn    - duration_in_traffic.value and duration.value             *)

Response(transport, status, nroutes, wellformed, dit, dn) ==
    [transport |-> transport, status |-> status, nroutes |-> nroutes,
     wellformed |-> wellformed, dit |-> dit, dn |-> dn]

TrafficData(location, dit, dn, timestamp, severity) ==
    [location |-> location, duration_in_traffic |-> dit, duration_normal |-> dn,
     timestamp |-> timestamp, severity |-> severity]

\* variant: a zero baseline is not caught, the observation is returned
get_traffic_data_unguarded(origin, destination, resp, localNow) ==
    IF ~resp.transport THEN None
    ELSE IF resp.status = "OK" /\ resp.nroutes > 0 THEN
        IF ~resp.wellformed THEN None
        ELSE TrafficData(LocationKey(origin, destination), resp.dit, resp.dn, localNow,
                         calculate_severity(<<resp.dit - resp.dn, resp.dn>>))
    ELSE None

\* variant: the increase is taken relative to duration_in_traffic
get_traffic_data_wrong_base(origin, destination, resp, localNow) ==
    IF ~resp.transport THEN None
    ELSE IF resp.status = "OK" /\ resp.nroutes > 0 THEN
        IF ~resp.wellformed THEN None
        ELSE IF resp.dn = 0 THEN None
        ELSE TrafficData(LocationKey(origin, destination), resp.dit, resp.dn, localNow,
                         calculate_severity(<<resp.dit - resp.dn, resp.dit>>))
    ELSE None

get_traffic_data(origin, destination, resp, localNow) ==
    IF ~resp.transport THEN None                      \* except Exception: return None
    ELSE IF resp.status = "OK" /\ resp.nroutes > 0 THEN
        IF ~resp.wellformed THEN None                 \* KeyError / IndexError caught
        ELSE IF resp.dn = 0 THEN None                 \* ZeroDivisionError caught
        ELSE TrafficData(LocationKey(origin, destination), resp.dit, resp.dn, localNow,
                         calculate_severity(<<resp.dit - resp.dn, resp.dn>>))
    ELSE None                                         \* falls off the end of the function

-----------------------------------------------------------------------------
(* Geocoding.  A response of the geocoding API is a record:                *)
(*   transport, status as above; nresults - len(data["results"]);          *)
(*   wellformed - FALSE when results[0].geometry.location is missing;      *)
(*   point - the coordinate pair found                                     *)

\* a coordinate dict {"lat": ..., "lng": ...}
Coord(point) == [point |-> point]

GeoResponse(transport, status, nresults, wellformed, point) ==
    [transport |-> transport, status |-> status, nresults |-> nresults,
     wellformed |-> wellformed, point |-> point]

geocode_address(resp) ==
    IF ~resp.transport THEN None
    ELSE IF resp.status = "OK" /\ resp.nresults > 0 THEN
        IF ~resp.wellformed THEN None
        ELSE Coord(resp.point)                        \* {"lat": ..., "lng": ...}
    ELSE None

-----------------------------------------------------------------------------
(* Historical Baseline Store *)

\* variant: INSERT OR REPLACE keyed by location
store_traffic_data_upsert(hist, traffic_data) ==
    IF \E i \in 1..Len(hist) : hist[i].location = traffic_data.location
    THEN LET i == CHOOSE j \in 1..Len(hist) : hist[j].location = traffic_data.location
         IN [hist EXCEPT ![i] = traffic_data]
    ELSE Append(hist, traffic_data)

\* INSERT INTO traffic_history ... ; commit
store_traffic_data(hist, traffic_data) == Append(hist, traffic_data)

RECURSIVE SumDuration(_, _)
\* SUM(duration_in_traffic) over the rows of hist whose ids are in ids
SumDuration(hist, ids) ==
    IF ids = {} THEN 0
    ELSE LET i == CHOOSE j \in ids : TRUE
         IN hist[i].duration_in_traffic + SumDuration(hist, ids \ {i})

\* WHERE location = ? AND timestamp > ?
AverageRows(hist, location, cutoff_date) ==
    {i \in 1..Len(hist) : hist[i].location = location /\ hist[i].timestamp > cutoff_date}

\* the float total / count, kept as an exact fraction
Avg(total, count) == [total |-> total, count |-> count]

\* AVG(...) is NULL over no rows; "result[0] if result[0] else None" also turns 0.0 into None
get_historical_average(hist, localNow, location, days_back) ==
    LET cutoff_date == localNow - days_back
        rows == AverageRows(hist, location, cutoff_date)
        total == SumDuration(hist, rows)
    IN IF rows = {} THEN None
       ELSE IF total = 0 THEN None
       ELSE Avg(total, Cardinality(rows))

-----------------------------------------------------------------------------
(* Anomaly Comparator *)

Unusual(is_unusual, msg) == [is_unusual |-> is_unusual, msg |-> msg]

\* variant: the threshold comparison is >= instead of >
is_traffic_unusual_inclusive(hist, localNow, current_duration, location) ==
    LET historical_avg == get_historical_average(hist, localNow, location, DaysBack)
    IN IF historical_avg = None THEN Unusual(FALSE, "No historical data available")
       ELSE LET increase_ratio == <<current_duration * historical_avg.count - historical_avg.total,
                                    historical_avg.total>>
            IN IF RatLeq(UnusualThreshold, increase_ratio)
               THEN Unusual(TRUE, "Traffic is higher than usual")
               ELSE Unusual(FALSE, "Traffic is within normal range")

is_traffic_unusual(hist, localNow, current_duration, location) ==
    LET historical_avg == get_historical_average(hist, localNow, location, DaysBack)
    IN IF historical_avg = None THEN Unusual(FALSE, "No historical data available")
       ELSE LET \* (current - S/N) / (S/N) = (current*N - S) / S
                increase_ratio == <<current_duration * historical_avg.count - historical_avg.total,
                                    historical_avg.total>>
            IN IF RatGt(increase_ratio, UnusualThreshold)
               THEN Unusual(TRUE, "Traffic is higher than usual")
               ELSE Unusual(FALSE, "Traffic is within normal range")

-----------------------------------------------------------------------------
(* Weekly summary query of stats_command *)

\* WHERE timestamp > datetime('now', '-7 days'): the stored local timestamps are
\* compared with a UTC cutoff
StatsRows(hist, utcNow) ==
    {i \in 1..Len(hist) : hist[i].timestamp > utcNow - StatsWindow}

StatsQuery(hist, utcNow) ==
    LET rows == StatsRows(hist, utcNow)
    IN [total_records |-> Cardinality(rows),
        avg_duration |-> IF rows = {} THEN None
                         ELSE Avg(SumDuration(hist, rows), Cardinality(rows)),
        severe_count |-> Cardinality({i \in rows : hist[i].severity = "severe"})]

-----------------------------------------------------------------------------
(* Inputs *)

\* (duration_in_traffic, duration) pairs the directions API answers with
DurationPairs == {<<0, 100>>, <<200, 100>>, <<1200, 900>>}

TransportError == Response(FALSE, "", 0, FALSE, 0, 0)
StatusNotOk == Response(TRUE, "ZERO_RESULTS", 1, TRUE, 100, 100)
NoRoutes == Response(TRUE, "OK", 0, TRUE, 0, 0)
Malformed == Response(TRUE, "OK", 1, FALSE, 0, 0)
ZeroBaseline == Response(TRUE, "OK", 1, TRUE, 100, 0)

FailedResponses == {TransportError, StatusNotOk, NoRoutes, Malformed, ZeroBaseline}

OkResponses == {Response(TRUE, "OK", 1, TRUE, p[1], p[2]) : p \in DurationPairs}

FetchResponses == FailedResponses \cup OkResponses

\* coordinates a user shares as origin; point 1 is also the origin of the first road
UserOrigins == {1}

\* coordinates the geocoder finds; point 2 is also the destination of the first road
GeoPoints == {2}

GeoResponses == {GeoResponse(FALSE, "", 0, FALSE, 0), GeoResponse(TRUE, "ZERO_RESULTS", 0, TRUE, 0),
                 GeoResponse(TRUE, "OK", 1, FALSE, 0)}
                \cup {GeoResponse(TRUE, "OK", 1, TRUE, p) : p \in GeoPoints}

-----------------------------------------------------------------------------
(* Initial state: a fresh database, no handler running, scheduler started *)

EmptyLog == [r \in Roads |-> [calls |-> 0, data |-> None, rows |-> {}]]

NoSeen == [len |-> 0, time |-> 0]

Init ==
    /\ history = <<>>
    /\ now = 0
    /\ tz \in TzOffsets
    /\ ticks = 0
    /\ sweepPc = "idle"
    /\ sweepIdx = 0
    /\ sweepData = None
    /\ sweepLog = EmptyLog
    /\ user_location = None
    /\ hPc = "idle"
    /\ hIdx = 0
    /\ hDest = None
    /\ hData = None
    /\ hResult = None
    /\ hRows = {}
    /\ hSeen = NoSeen
    /\ report = <<>>
    /\ reply = None
    /\ call = None

\* observations fetched but not yet stored
Pending == (IF sweepData # None THEN 1 ELSE 0)
           + (IF hPc \in {"t_store", "r_compare", "r_reply", "r_store"} THEN 1 ELSE 0)

CanFetch == Len(history) + Pending < MaxHist

\* The clock advances.  A sweep and a handler take seconds, the clock counts
\* hours: it advances while the scheduler thread sleeps and no handler runs.
Tick ==
    /\ sweepPc = "idle" /\ hPc = "idle"
    /\ ticks < MaxTicks
    /\ \E d \in ClockSteps : now' = now + d
    /\ ticks' = ticks + 1
    /\ UNCHANGED <<history, tz, sweepVars, user_location, handlerVars, call>>

-----------------------------------------------------------------------------
(* Collection Orchestrator: the scheduler thread running collect_traffic_data *)

\* the for loop moves to the next road, or the sweep returns
SweepAdvance ==
    IF sweepIdx < Len(major_roads)
    THEN sweepPc' = "fetch" /\ sweepIdx' = sweepIdx + 1
    ELSE sweepPc' = "done" /\ sweepIdx' = sweepIdx

\* schedule.run_pending() fires collect_traffic_data
SweepStart ==
    /\ sweepPc = "idle"
    /\ sweepPc' = "fetch"
    /\ sweepIdx' = 1
    /\ UNCHANGED <<history, now, tz, ticks, sweepData, sweepLog, user_location,
                   handlerVars, call>>

\* variant: a failed fetch ends the sweep
SweepFetchAbort ==
    /\ sweepPc = "fetch"
    /\ CanFetch
    /\ \E resp \in FetchResponses :
        LET coordinates == major_roads[sweepIdx]
            traffic_data == get_traffic_data(coordinates[1], coordinates[2], resp, LocalNow)
        IN /\ sweepLog' = [sweepLog EXCEPT ![sweepIdx].calls = @ + 1,
                                            ![sweepIdx].data = traffic_data]
           /\ IF traffic_data # None
              THEN sweepData' = traffic_data /\ sweepPc' = "store" /\ sweepIdx' = sweepIdx
              ELSE sweepData' = None /\ sweepPc' = "done" /\ sweepIdx' = sweepIdx
    /\ UNCHANGED <<history, now, tz, ticks, user_location, handlerVars, call>>

\* traffic_data = self.get_traffic_data(coordinates[0], coordinates[1])
SweepFetch ==
    /\ sweepPc = "fetch"
    /\ CanFetch
    /\ \E resp \in FetchResponses :
        LET coordinates == major_roads[sweepIdx]
            traffic_data == get_traffic_data(coordinates[1], coordinates[2], resp, LocalNow)
        IN /\ sweepLog' = [sweepLog EXCEPT ![sweepIdx].calls = @ + 1,
                                            ![sweepIdx].data = traffic_data]
           /\ IF traffic_data # None
              THEN sweepData' = traffic_data /\ sweepPc' = "store" /\ sweepIdx' = sweepIdx
              ELSE sweepData' = None /\ SweepAdvance
    /\ UNCHANGED <<history, now, tz, ticks, user_location, handlerVars, call>>

\* self.store_traffic_data(traffic_data)
SweepStore ==
    /\ sweepPc = "store"
    /\ history' = store_traffic_data(history, sweepData)
    /\ sweepLog' = [sweepLog EXCEPT ![sweepIdx].rows = @ \cup {Len(history')}]
    /\ sweepData' = None
    /\ SweepAdvance
    /\ UNCHANGED <<now, tz, ticks, user_location, handlerVars, call>>

\* collect_traffic_data has returned; the thread sleeps until the next run
SweepEnd ==
    /\ sweepPc = "done"
    /\ sweepPc' = "idle"
    /\ sweepIdx' = 0
    /\ sweepLog' = EmptyLog
    /\ UNCHANGED <<history, now, tz, ticks, sweepData, user_location, handlerVars, call>>

-----------------------------------------------------------------------------
(* Chat handlers; the application runs one handler at a time *)

Reply(kind) == [kind |-> kind]

\* handle_location
handle_location ==
    /\ hPc = "idle"
    /\ \E p \in UserOrigins : user_location' = Coord(p)
    /\ reply' = Reply("location_received")
    /\ hPc' = "done"
    /\ UNCHANGED <<history, now, tz, ticks, sweepVars, hIdx, hDest, hData,
                   hResult, hRows, hSeen, report, call>>

\* handle_text up to the geocoding of the destination
TextStart ==
    /\ hPc = "idle"
    /\ IF user_location = None
       THEN /\ reply' = Reply("share_location_first")
            /\ hPc' = "done" /\ hDest' = None
       ELSE \E resp \in GeoResponses :
            LET destination == geocode_address(resp)
            IN IF destination = None
               THEN /\ reply' = Reply("destination_not_found")
                    /\ hPc' = "done" /\ hDest' = None
               ELSE /\ reply' = None
                    /\ hPc' = "r_fetch" /\ hDest' = destination
    /\ UNCHANGED <<history, now, tz, ticks, sweepVars, user_location, hIdx, hData,
                   hResult, hRows, hSeen, report, call>>

\* traffic_data = self.get_traffic_data(origin, destination)
TextFetch ==
    /\ hPc = "r_fetch"
    /\ CanFetch
    /\ \E resp \in FetchResponses :
        LET origin == user_location
            traffic_data == get_traffic_data(origin.point, hDest.point, resp, LocalNow)
        IN IF traffic_data # None
           THEN hData' = traffic_data /\ hPc' = "r_compare" /\ reply' = reply
           ELSE hData' = None /\ hPc' = "done" /\ reply' = Reply("route_unavailable")
    /\ UNCHANGED <<history, now, tz, ticks, sweepVars, user_location, hIdx, hDest,
                   hResult, hRows, hSeen, report, call>>

\* is_unusual, unusual_msg = self.is_traffic_unusual(...)
TextCompare ==
    /\ hPc = "r_compare"
    /\ hResult' = is_traffic_unusual(history, LocalNow, hData.duration_in_traffic, hData.location)
    /\ hSeen' = [len |-> Len(history), time |-> now]
    /\ hPc' = "r_reply"
    /\ UNCHANGED <<history, now, tz, ticks, sweepVars, user_location, hIdx, hDest,
                   hData, hRows, report, reply, call>>

\* await update.message.reply_text(response, ...)
TextReply ==
    /\ hPc = "r_reply"
    /\ reply' = [kind |-> "route", traffic_data |-> hData, unusual |-> hResult]
    /\ hPc' = "r_store"
    /\ UNCHANGED <<history, now, tz, ticks, sweepVars, user_location, hIdx, hDest,
                   hData, hResult, hRows, hSeen, report, call>>

\* variant: the observation is inserted twice
TextStoreTwice ==
    /\ hPc = "r_store"
    /\ history' = store_traffic_data(store_traffic_data(history, hData), hData)
    /\ hRows' = hRows \cup {Len(history) + 1, Len(history) + 2}
    /\ hPc' = "done"
    /\ UNCHANGED <<now, tz, ticks, sweepVars, user_location, hIdx, hDest, hData,
                   hResult, hSeen, report, reply, call>>

\* self.store_traffic_data(traffic_data), the last statement of handle_text
TextStore ==
    /\ hPc = "r_store"
    /\ history' = store_traffic_data(history, hData)
    /\ hRows' = hRows \cup {Len(history')}
    /\ hPc' = "done"
    /\ UNCHANGED <<now, tz, ticks, sweepVars, user_location, hIdx, hDest, hData,
                   hResult, hSeen, report, reply, call>>

\* the for loop of traffic_command moves to the next road, or the report is sent
TrafficAdvance(entries) ==
    IF hIdx < Len(major_roads)
    THEN hPc' = "t_fetch" /\ hIdx' = hIdx + 1 /\ reply' = reply
    ELSE hPc' = "done" /\ hIdx' = hIdx /\ reply' = [kind |-> "traffic_report", entries |-> entries]

\* traffic_command up to the for loop
TrafficStart ==
    /\ hPc = "idle"
    /\ hPc' = "t_fetch"
    /\ hIdx' = 1
    /\ report' = <<>>
    /\ UNCHANGED <<history, now, tz, ticks, sweepVars, user_location, hDest, hData,
                   hResult, hRows, hSeen, reply, call>>

\* traffic_data = self.get_traffic_data(coordinates[0], coordinates[1])
TrafficFetch ==
    /\ hPc = "t_fetch"
    /\ CanFetch
    /\ \E resp \in FetchResponses :
        LET coordinates == major_roads[hIdx]
            traffic_data == get_traffic_data(coordinates[1], coordinates[2], resp, LocalNow)
        IN IF traffic_data # None
           THEN hData' = traffic_data /\ hPc' = "t_store" /\ hIdx' = hIdx /\ reply' = reply
           ELSE hData' = None /\ TrafficAdvance(report)
    /\ hResult' = None
    /\ UNCHANGED <<history, now, tz, ticks, sweepVars, user_location, hDest,
                   hRows, hSeen, report, call>>

\* variant: traffic_command compares before it records (nothing inserted at this step)
TrafficStoreSkipped ==
    /\ hPc = "t_store"
    /\ hPc' = "t_compare"
    /\ UNCHANGED <<history, now, tz, ticks, sweepVars, user_location, hIdx, hDest, hData,
                   hResult, hRows, hSeen, report, reply, call>>

\* self.store_traffic_data(traffic_data)
TrafficStore ==
    /\ hPc = "t_store"
    /\ history' = store_traffic_data(history, hData)
    /\ hRows' = hRows \cup {Len(history')}
    /\ hPc' = "t_compare"
    /\ UNCHANGED <<now, tz, ticks, sweepVars, user_location, hIdx, hDest, hData,
                   hResult, hSeen, report, reply, call>>

\* is_unusual, unusual_msg = self.is_traffic_unusual(...)
TrafficCompare ==
    /\ hPc = "t_compare"
    /\ hResult' = is_traffic_unusual(history, LocalNow, hData.duration_in_traffic, hData.location)
    /\ hSeen' = [len |-> Len(history), time |-> now]
    /\ hPc' = "t_format"
    /\ UNCHANGED <<history, now, tz, ticks, sweepVars, user_location, hIdx, hDest,
                   hData, hRows, report, reply, call>>

\* the entry of this road is added to traffic_report
TrafficFormat ==
    /\ hPc = "t_format"
    /\ report' = Append(report, [road |-> hIdx, severity |-> hData.severity,
                                 is_unusual |-> hResult.is_unusual])
    /\ hData' = None
    /\ TrafficAdvance(report')
    /\ UNCHANGED <<history, now, tz, ticks, sweepVars, user_location, hDest,
                   hResult, hRows, hSeen, call>>

\* stats_command
stats_command ==
    /\ hPc = "idle"
    /\ LET stats == StatsQuery(history, now)
       IN reply' = IF stats.total_records > 0
                   THEN [kind |-> "stats", total_records |-> stats.total_records,
                         avg_duration |-> stats.avg_duration,
                         severe_count |-> stats.severe_count]
                   ELSE Reply("no_stats")
    /\ hSeen' = [len |-> Len(history), time |-> now]
    /\ hPc' = "done"
    /\ UNCHANGED <<history, now, tz, ticks, sweepVars, user_location, hIdx, hDest,
                   hData, hResult, hRows, report, call>>

\* the handler has returned; the application waits for the next update
HandlerEnd ==
    /\ hPc = "done"
    /\ hPc' = "idle"
    /\ hIdx' = 0 /\ hDest' = None /\ hData' = None /\ hResult' = None
    /\ hRows' = {} /\ hSeen' = NoSeen /\ report' = <<>> /\ reply' = None
    /\ UNCHANGED <<history, now, tz, ticks, sweepVars, user_location, call>>

-----------------------------------------------------------------------------

Next ==
    \/ Tick
    \/ SweepStart
    \/ SweepFetch
    \/ SweepStore
    \/ SweepEnd
    \/ handle_location
    \/ TextStart
    \/ TextFetch
    \/ TextCompare
    \/ TextReply
    \/ TextStore
    \/ TrafficStart
    \/ TrafficFetch
    \/ TrafficStore
    \/ TrafficCompare
    \/ TrafficFormat
    \/ stats_command
    \/ HandlerEnd

Spec == Init /\ [][Next]_vars

-----------------------------------------------------------------------------
(* Direct calls of the pure operations, on histories the program can hold *)

\* rows a history holds at most
FnMaxRows == 3

\* the clock when the calls are made
FnNow == 721

\* the clock values the rows were fetched at
FnTimes == {0, FnNow}

FnPairs == {<<0, 100>>, <<100, 100>>, <<200, 100>>}

FnKeys == {LocationKey(major_roads[1][1], major_roads[1][2]), LocationKey(1, 9)}

FnRows(offset) ==
    {get_traffic_data(k[1], k[2], Response(TRUE, "OK", 1, TRUE, p[1], p[2]), t + offset) :
        k \in FnKeys, p \in FnPairs, t \in FnTimes}

\* histories in insertion order: timestamps never decrease
FnHistories(offset) ==
    {h \in UNION {[1..n -> FnRows(offset)] : n \in 0..FnMaxRows} :
        \A i \in 1..Len(h) : \A j \in i..Len(h) : h[i].timestamp <= h[j].timestamp}

\* increase ratios in thousandths
RatioNums == {-1000, -1, 0, 149, 150, 151, 299, 300, 301, 333, 599, 600, 601, 1000, 5000}

Ratios == {<<n, 1000>> : n \in RatioNums}

CurrentDurations == {0, 100, 150, 151, 300}

FnResponses == FetchResponses
               \cup {Response(TRUE, "OK", 1, TRUE, d, 100) : d \in {115, 116, 130, 131, 160, 161}}
               \cup {Response(TRUE, "REQUEST_DENIED", 0, TRUE, 0, 0), Response(TRUE, "OK", 1, TRUE, 0, 0)}

InitFn ==
    /\ tz \in TzOffsets
    /\ now = FnNow
    /\ history \in FnHistories(tz)
    /\ ticks = 0
    /\ sweepPc = "idle"
    /\ sweepIdx = 0
    /\ sweepData = None
    /\ sweepLog = EmptyLog
    /\ user_location = None
    /\ hPc = "idle"
    /\ hIdx = 0
    /\ hDest = None
    /\ hData = None
    /\ hResult = None
    /\ hRows = {}
    /\ hSeen = NoSeen
    /\ report = <<>>
    /\ reply = None
    /\ call = None

Call(fn, args, result) == [fn |-> fn, args |-> args, result |-> result]

\* calculate_severity applied to two ratios
CallSeverity ==
    /\ call = None
    /\ \E r1 \in Ratios, r2 \in Ratios :
        call' = Call("calculate_severity", <<r1, r2>>,
                     <<calculate_severity(r1), calculate_severity(r2)>>)
    /\ UNCHANGED <<history, now, tz, ticks, sweepVars, user_location, handlerVars>>

\* get_traffic_data applied to a response of the directions API
CallFetch ==
    /\ call = None
    /\ \E resp \in FnResponses, k \in FnKeys :
        call' = Call("get_traffic_data", [origin |-> k[1], destination |-> k[2], resp |-> resp],
                     get_traffic_data(k[1], k[2], resp, LocalNow))
    /\ UNCHANGED <<history, now, tz, ticks, sweepVars, user_location, handlerVars>>

\* get_historical_average on the current history
CallAverage ==
    /\ call = None
    /\ \E k \in FnKeys :
        call' = Call("get_historical_average", [location |-> k, days_back |-> DaysBack],
                     get_historical_average(history, LocalNow, k, DaysBack))
    /\ UNCHANGED <<history, now, tz, ticks, sweepVars, user_location, handlerVars>>

\* is_traffic_unusual on the current history
CallUnusual ==
    /\ call = None
    /\ \E k \in FnKeys, c \in CurrentDurations :
        call' = Call("is_traffic_unusual", [current_duration |-> c, location |-> k],
                     is_traffic_unusual(history, LocalNow, c, k))
    /\ UNCHANGED <<history, now, tz, ticks, sweepVars, user_location, handlerVars>>

NextFn ==
    \/ CallSeverity
    \/ CallFetch
    \/ CallAverage
    \/ CallUnusual

SpecFn == InitFn /\ [][NextFn]_vars

-----------------------------------------------------------------------------
(* Properties of the pure operations, checked under SpecFn *)

IsCall(fn) == call # None /\ call.fn = fn

SeverityLabels == {"normal", "moderate", "heavy", "severe"}

\* position in the order normal < moderate < heavy < severe
Rank(s) == CASE s = "normal" -> 0 [] s = "moderate" -> 1 [] s = "heavy" -> 2 [] OTHER -> 3

\* the band of a ratio of n thousandths
Band(n) == IF n <= 150 THEN "normal"
           ELSE IF n <= 300 THEN "moderate"
           ELSE IF n <= 600 THEN "heavy"
           ELSE "severe"

\* C1: calculate_severity returns one of the four labels for every ratio
\* (negative ones included), is monotonic non-decreasing in the ratio, and
\* puts r <= 0.15 in normal, 0.15 < r <= 0.30 in moderate, 0.30 < r <= 0.60
\* in heavy and r > 0.60 in severe (the boundaries fall in the lower band).
C1_SeverityBands ==
    IsCall("calculate_severity") =>
        LET n1 == call.args[1][1]
            n2 == call.args[2][1]
            s1 == call.result[1]
            s2 == call.result[2]
        IN /\ s1 \in SeverityLabels /\ s2 \in SeverityLabels
           /\ s1 = Band(n1) /\ s2 = Band(n2)
           /\ (n1 <= n2 => Rank(s1) <= Rank(s2))

\* the boundary 0.15 is normal and the next ratio above it is moderate
C1_Witness ==
    /\ IsCall("calculate_severity")
    /\ call.args = << <<150, 1000>>, <<151, 1000>> >>
    /\ call.result = <<"normal", "moderate">>

RECURSIVE DurationTotal(_, _, _, _)
\* total of duration_in_traffic over the first n rows with this location that are newer than cutoff
DurationTotal(hist, n, location, cutoff) ==
    IF n = 0 THEN 0
    ELSE DurationTotal(hist, n - 1, location, cutoff)
         + (IF hist[n].location = location /\ hist[n].timestamp > cutoff
            THEN hist[n].duration_in_traffic ELSE 0)

RECURSIVE RowCount(_, _, _, _)
\* number of rows among the first n with this location that are newer than cutoff
RowCount(hist, n, location, cutoff) ==
    IF n = 0 THEN 0
    ELSE RowCount(hist, n - 1, location, cutoff)
         + (IF hist[n].location = location /\ hist[n].timestamp > cutoff THEN 1 ELSE 0)

RECURSIVE DurationSum(_)
\* total of duration_in_traffic over the rows of the history with these ids
DurationSum(ids) ==
    IF ids = {} THEN 0
    ELSE LET m == CHOOSE j \in ids : \A k \in ids : k <= j
         IN history[m].duration_in_traffic + DurationSum(ids \ {m})

Reverse(seq) == [i \in 1..Len(seq) |-> seq[Len(seq) + 1 - i]]

\* C3: get_historical_average returns the arithmetic mean of duration_in_traffic
\* over exactly the rows with that location key inside the lookback window, for
\* any N >= 1 of them and any durations >= 0, whatever the insertion order, and
\* None exactly when there is no such row.
C3_AverageIsMean ==
    IsCall("get_historical_average") =>
        LET cutoff == LocalNow - call.args.days_back
            n == RowCount(history, Len(history), call.args.location, cutoff)
            total == DurationTotal(history, Len(history), call.args.location, cutoff)
        IN /\ (n = 0 => call.result = None)
           /\ (n >= 1 => /\ call.result # None
                         /\ call.result.total * n = total * call.result.count)
           /\ get_historical_average(Reverse(history), LocalNow, call.args.location,
                                     call.args.days_back) = call.result

\* C4: is_traffic_unusual returns (False, no historical data) when the location
\* has no row in the 30-day window, whatever current_duration is; with an
\* average a > 0 it returns True exactly when (current_duration - a) / a > 0.5
\* (strictly), and (False, within normal range) otherwise.
C4_UnusualThreshold ==
    IsCall("is_traffic_unusual") =>
        LET cutoff == LocalNow - 30 * 24
            c == call.args.current_duration
            n == RowCount(history, Len(history), call.args.location, cutoff)
            total == DurationTotal(history, Len(history), call.args.location, cutoff)
        IN /\ (n = 0 => call.result = Unusual(FALSE, "No historical data available"))
           /\ (n >= 1 /\ total > 0 =>
                 \* (c - total/n) / (total/n) > 1/2
                 call.result = IF 2 * (c * n - total) > total
                               THEN Unusual(TRUE, "Traffic is higher than usual")
                               ELSE Unusual(FALSE, "Traffic is within normal range"))

\* average 100 and current 151 is unusual, while current 150 on the same history is not
C4_Witness ==
    /\ IsCall("is_traffic_unusual")
    /\ call.args.current_duration = 151
    /\ get_historical_average(history, LocalNow, call.args.location, DaysBack) \in
           {Avg(100, 1), Avg(200, 2), Avg(300, 3)}
    /\ call.result.is_unusual
    /\ ~is_traffic_unusual(history, LocalNow, 150, call.args.location).is_unusual

\* the conditions under which the directions lookup yields no observation
FetchFails(resp) ==
    \/ ~resp.transport
    \/ resp.status # "OK"
    \/ resp.nroutes = 0
    \/ ~resp.wellformed
    \/ resp.dn = 0

\* C5: get_traffic_data returns None on a transport error, a non-OK status, an
\* empty route list, a malformed response and a baseline duration of 0, and an
\* Observation made of the response's two durations in every other case.
C5_FetchFailures ==
    IsCall("get_traffic_data") =>
        LET resp == call.args.resp
        IN IF FetchFails(resp)
           THEN call.result = None
           ELSE /\ call.result # None
                /\ call.result.duration_in_traffic = resp.dit
                /\ call.result.duration_normal = resp.dn
                /\ call.result.location = LocationKey(call.args.origin, call.args.destination)
                /\ call.result.timestamp = LocalNow

\* a well-formed OK response whose baseline duration is 0 yields None
C5_Witness ==
    /\ IsCall("get_traffic_data")
    /\ call.args.resp = ZeroBaseline
    /\ call.result = None

-----------------------------------------------------------------------------
(* Properties of the sweep and the handlers, checked under Spec *)

\* C2: when a sweep ends the fetcher has been called exactly once for every
\* monitored road, whatever fetches failed, and the sweep has inserted exactly
\* one row, the fetched Observation, for every road whose fetch succeeded and
\* no row for a road whose fetch failed.
C2_SweepOncePerRoad ==
    /\ \A r \in Roads : sweepLog[r].calls <= 1
    /\ sweepPc = "done" =>
          \A r \in Roads :
              /\ sweepLog[r].calls = 1
              /\ (sweepLog[r].data = None => sweepLog[r].rows = {})
              /\ (sweepLog[r].data # None =>
                      /\ Cardinality(sweepLog[r].rows) = 1
                      /\ \A i \in sweepLog[r].rows : history[i] = sweepLog[r].data)

\* a sweep has ended in which the first road failed and a later road was recorded
C2_Witness ==
    /\ sweepPc = "done"
    /\ sweepLog[1].calls = 1 /\ sweepLog[1].data = None /\ sweepLog[1].rows = {}
    /\ \E r \in Roads : sweepLog[r].data # None /\ sweepLog[r].rows # {}

RouteFailureReplies == {"share_location_first", "destination_not_found", "route_unavailable"}

\* C6: a route query that fails at any stage (no origin, geocoding, fetch)
\* ends with an "unavailable" reply, without having called the comparator and
\* without having inserted a row; one that succeeds replies with the
\* Observation and the comparator's result and inserts exactly that Observation.
C6_RouteQueryOutcome ==
    /\ hPc \in {"r_compare", "r_reply", "r_store"} => hData # None /\ user_location # None
    /\ (hPc = "done" /\ reply.kind \in RouteFailureReplies) =>
          /\ hRows = {}
          /\ hResult = None
          /\ hData = None
          /\ (reply.kind = "share_location_first" <=> user_location = None)
    /\ (hPc = "done" /\ reply.kind = "route") =>
          /\ hResult # None
          /\ reply.traffic_data = hData
          /\ reply.unusual = hResult
          /\ Cardinality(hRows) = 1
          /\ \A i \in hRows : history[i] = hData

\* a route query whose fetch failed has ended, while the sweep has rows in the history
C6_Witness ==
    /\ hPc = "done"
    /\ reply.kind = "route_unavailable"
    /\ hRows = {}
    /\ Len(history) > 0

\* the rows of the snapshot a statistics query read that lie in the trailing 7 days
\* (a row fetched at UTC time t carries the local timestamp t + tz)
WeekRows == {i \in 1..hSeen.len : history[i].timestamp - tz > hSeen.time - 7 * 24}

\* C7: every Observation recorded inside the trailing 7-day window is counted
\* once in count, adds its duration_in_traffic to avg_duration and counts in
\* severe_count exactly when it is severe; Observations outside the window
\* contribute to none of the three.
C7_WeeklySummary ==
    /\ (hPc = "done" /\ reply.kind = "no_stats") => WeekRows = {}
    /\ (hPc = "done" /\ reply.kind = "stats") =>
          /\ reply.total_records = Cardinality(WeekRows)
          /\ reply.avg_duration # None
          /\ reply.avg_duration.total * Cardinality(WeekRows)
                 = DurationSum(WeekRows) * reply.avg_duration.count
          /\ reply.severe_count = Cardinality({i \in WeekRows : history[i].severity = "severe"})

\* the band of the increase of dit over dn, dn > 0
SeverityOf(dit, dn) ==
    IF 100 * (dit - dn) <= 15 * dn THEN "normal"
    ELSE IF 100 * (dit - dn) <= 30 * dn THEN "moderate"
    ELSE IF 100 * (dit - dn) <= 60 * dn THEN "heavy"
    ELSE "severe"

\* C8: every row of the history has a non-zero duration_normal and the
\* severity of the increase of its duration_in_traffic over its
\* duration_normal (1200 s against 900 s is heavy), whichever flow inserted it.
C8_StoredSeverity ==
    \A i \in 1..Len(history) :
        /\ history[i].duration_normal # 0
        /\ history[i].severity = SeverityOf(history[i].duration_in_traffic,
                                            history[i].duration_normal)
        /\ (history[i].duration_in_traffic = 1200 /\ history[i].duration_normal = 900
               => history[i].severity = "heavy")

\* the sweep and a route query have both inserted rows, one of them 1200 s against 900 s
C8_Witness ==
    /\ \E r \in Roads : sweepLog[r].rows # {}
    /\ hPc = "done" /\ reply.kind = "route" /\ hRows # {}
    /\ \E i \in 1..Len(history) :
          /\ history[i].duration_in_traffic = 1200
          /\ history[i].duration_normal = 900
          /\ history[i].severity = "heavy"

SweepStores == sweepPc = "store" /\ sweepPc' # "store"

HandlerStores == hPc \in {"t_store", "r_store"} /\ hPc' # hPc

\* C9: under every interleaving of the sweep with the handlers a step leaves
\* the rows already in the history as they are and adds at most one row; a
\* store step adds exactly the Observation its caller holds, and nothing but a
\* store step adds a row.
C9_AppendOnly ==
    [][/\ Len(history') >= Len(history)
       /\ Len(history') <= Len(history) + 1
       /\ SubSeq(history', 1, Len(history)) = history
       /\ (SweepStores => history' = Append(history, sweepData))
       /\ (HandlerStores => history' = Append(history, hData))
       /\ (Len(history') = Len(history) + 1 => SweepStores \/ HandlerStores)]_vars

\* a row of the running major-roads report lies between two rows of the running sweep
C9_Witness ==
    /\ sweepPc # "idle"
    /\ hPc \in {"t_compare", "t_format"}
    /\ \E i \in UNION {sweepLog[r].rows : r \in Roads}, j \in hRows,
          k \in UNION {sweepLog[r].rows : r \in Roads} : i < j /\ j < k

\* the row the running handler inserted last
OwnRow == CHOOSE i \in hRows : \A j \in hRows : j <= i

\* the rows with this location inside the 30-day window that the handler's comparison read
Compared(location) ==
    {i \in 1..hSeen.len : /\ history[i].location = location
                          /\ history[i].timestamp > LocalNow - 30 * 24}

NoData == Unusual(FALSE, "No historical data available")

\* the major-roads report records before it compares, the route query compares before it records
RecordCompareOrder ==
    /\ hPc = "t_format" => /\ hRows # {}
                           /\ OwnRow <= hSeen.len
                           /\ history[OwnRow] = hData
    /\ hPc = "r_reply" => hRows = {}

\* a route query on a location without a row in the window yields no-historical-data
RouteFirstObservation ==
    (hPc = "r_reply" /\ hData.duration_in_traffic > 0 /\ Compared(hData.location) = {})
        => hResult = NoData

\* the major-roads report has compared a fresh Observation of a positive
\* duration for a location without an earlier row in the window
ReportFirstObservation ==
    /\ hPc = "t_format"
    /\ hData.duration_in_traffic > 0
    /\ \A i \in Compared(hData.location) : i >= OwnRow

\* C10 as claimed: the major-roads report records each fresh Observation before
\* it compares and the route query compares before it records; so for a
\* location without an earlier Observation in the window and a fresh duration
\* > 0 the report never yields no-historical-data and never flags the
\* Observation as unusual, and the route query always yields no-historical-data.
C10_AsClaimed ==
    /\ RecordCompareOrder
    /\ RouteFirstObservation
    /\ ReportFirstObservation => hResult # NoData /\ ~hResult.is_unusual

\* C10 amended: as above, but the report is only certain not to flag the
\* Observation as unusual when no other Observation of the location was
\* inserted between its own record and compare steps.
C10_RecordCompareOrder ==
    /\ RecordCompareOrder
    /\ RouteFirstObservation
    /\ ReportFirstObservation =>
          /\ hResult # NoData
          /\ (Compared(hData.location) = {OwnRow} => ~hResult.is_unusual)

\* the report compared a fresh Observation with itself alone, the only earlier
\* row of that road being older than 30 days
C10_Witness ==
    /\ ReportFirstObservation
    /\ Compared(hData.location) = {OwnRow}
    /\ \E i \in 1..(OwnRow - 1) : history[i].location = hData.location
    /\ hResult = Unusual(FALSE, "Traffic is within normal range")

====
